---- MODULE Spec2Model ----
(***************************************************************************)
(* Model of internal/license/check.go: the process-wide License, its lazy  *)
(* initialisation through sync.Once, and the quota operations CanRun,      *)
(* GetStatus, GetMaxTokens and GetTierName called from several goroutines. *)
(* Time is counted in hours; a credential is a sequence of characters.     *)
(***************************************************************************)
EXTENDS Integers, Sequences, FiniteSets, TLC

(* ------------------------------ bounds -------------------------------- *)

\* number of goroutines calling into the package
NumThreads == 2
\* the clock stops advancing past this hour
MaxTime == 25
\* CanRun calls one goroutine makes in the concurrent quota specification
MaxCalls == 2
\* no further CanRun is started once this many were denied in the period,
\* until the period is over
MaxDenied == 2
\* no further Enterprise CanRun is started once the counter reached this value
EntCap == 6
\* CanRun calls one goroutine makes in the specification of the whole process
LifeCalls == 1
\* the concurrent quota specification starts with at most this many slots left
MaxSlots == 3
\* the longest credential the credential specification resolves
MaxKeyLen == 21

(* ------------------------- program constants -------------------------- *)

FreeTier == 0
ProTier == 1
EnterpriseTier == 2

FreeMaxRunsPerDay == 5
FreeMaxTokensPerRun == 1000
ProMaxRunsPerDay == 100
ProMaxTokensPerRun == 10000
EnterpriseMaxRuns == -1
EnterpriseMaxTokens == -1

\* 24*time.Hour, in hours
Period == 24
\* len(key) >= 20
MinKeyLen == 20

(* ----------------------------- credentials ---------------------------- *)

PRO == <<"P", "R", "O", "_">>
ENT == <<"E", "N", "T", "_">>
FREE == <<"F", "R", "E", "E", "_">>

\* a credential of n characters starting with prefix p (p alone when n is smaller)
MkKey(p, n) == IF n <= Len(p) THEN p ELSE p \o [i \in 1..(n - Len(p)) |-> "1"]

\* strings.HasPrefix
HasPrefix(s, p) == Len(s) >= Len(p) /\ SubSeq(s, 1, Len(p)) = p

\* validateKey that wants more than MinKeyLen characters
validateKeyLonger(key) ==
    IF HasPrefix(key, PRO) /\ Len(key) > MinKeyLen THEN TRUE
    ELSE IF HasPrefix(key, ENT) /\ Len(key) > MinKeyLen THEN TRUE
    ELSE FALSE

validateKey(key) ==
    IF HasPrefix(key, PRO) /\ Len(key) >= MinKeyLen THEN TRUE
    ELSE IF HasPrefix(key, ENT) /\ Len(key) >= MinKeyLen THEN TRUE
    ELSE FALSE

\* ResolvedTier that trusts the prefix of a credential validateKey rejected
ResolvedTierByPrefix(key) ==
    IF HasPrefix(key, ENT) THEN EnterpriseTier
    ELSE IF HasPrefix(key, PRO) THEN ProTier
    ELSE FreeTier

\* the Tier the body of Initialize assigns for a credential
ResolvedTier(key) ==
    IF key = <<>> THEN FreeTier
    ELSE IF validateKey(key)
         THEN (IF HasPrefix(key, ENT) THEN EnterpriseTier ELSE ProTier)
         ELSE FreeTier

\* ResolvedMaxRuns that gives every valid credential the limit of Pro
ResolvedMaxRunsNoEnt(key) ==
    IF key = <<>> THEN FreeMaxRunsPerDay
    ELSE IF validateKey(key) THEN ProMaxRunsPerDay
         ELSE FreeMaxRunsPerDay

\* the MaxRuns the body of Initialize assigns for a credential
ResolvedMaxRuns(key) ==
    IF key = <<>> THEN FreeMaxRunsPerDay
    ELSE IF validateKey(key)
         THEN (IF HasPrefix(key, ENT) THEN EnterpriseMaxRuns ELSE ProMaxRunsPerDay)
         ELSE FreeMaxRunsPerDay

\* values of LICENSE_KEY in the specifications of the running process
EnvKeys == {<<>>, MkKey(PRO, MinKeyLen), MkKey(ENT, MinKeyLen), MkKey(PRO, MinKeyLen - 1)}

\* the ways a credential can start: nothing, the two markers, and near misses
Prefixes == {<<>>, PRO, ENT, FREE, <<"P", "R", "O">>, <<"p", "r", "o", "_">>,
             <<"X", "P", "R", "O", "_">>, <<"E", "N", "T">>}

\* values of LICENSE_KEY in the credential specification: every prefix alone
\* and at each length around MinKeyLen
KeyInputs == {MkKey(p, n) : p \in Prefixes, n \in {0} \cup ((MinKeyLen - 1)..MaxKeyLen)}

\* hours by which the clock advances in one step
TickSteps == {12, 13}

(* ------------------------------- state -------------------------------- *)

VARIABLES
    env,            \* the value of LICENSE_KEY
    now,            \* the clock
    currentLicense, \* the global pointer: 0 is nil, otherwise a License
    lic,            \* the heap of License objects
    mu,             \* License.mu of each License: the goroutine holding it, or 0
    nAlloc,         \* number of License objects allocated
    onceDone,       \* sync.Once: done
    onceM,          \* sync.Once: the goroutine holding its mutex, or 0
    pc,             \* where each goroutine is
    h,              \* the *License each goroutine was handed (0 is none yet)
    res,            \* the value the call in flight is about to return
    before,         \* the License as the call in flight found it on entry
    clk,            \* the clock value the call in flight read
    budget,         \* CanRun calls the goroutine may still start (-1: no limit)
    allowed,        \* CanRun calls allowed since the period began (or since the start)
    denied,         \* CanRun calls denied since the period began
    startRuns,      \* DailyRuns when the counting of allowed began
    resets,         \* number of period resets performed
    winStart,       \* hour of the allowed run that opened the 24-hour window being counted
    winCount,       \* runs allowed within 24 hours from winStart
    initRuns        \* number of executions of the body passed to once.Do

vars == <<env, now, currentLicense, lic, mu, nAlloc, onceDone, onceM, pc, h, res,
          before, clk, budget, allowed, denied, startRuns, resets, winStart, winCount, initRuns>>

Threads == 1..NumThreads
LicIds == 1..NumThreads

\* &License{} : every field at its zero value
ZeroLicense == [Tier |-> FreeTier, Key |-> <<>>, DailyRuns |-> 0, MaxRuns |-> 0, LastReset |-> 0]

NoRes == [kind |-> "none"]
\* the call in flight has not read the clock yet
NoClk == -1
\* the 24-hour window is not being counted
WinOff == NoClk - 1

Min(a, b) == IF a <= b THEN a ELSE b

(* --------------------------- pure accessors --------------------------- *)

\* GetMaxTokens that hands out what the runs of the period left over
GetMaxTokensLessRuns(l) ==
    CASE l.Tier = EnterpriseTier -> EnterpriseMaxTokens
      [] l.Tier = ProTier -> ProMaxTokensPerRun - l.DailyRuns
      [] OTHER -> FreeMaxTokensPerRun - l.DailyRuns

GetMaxTokens(l) ==
    CASE l.Tier = EnterpriseTier -> EnterpriseMaxTokens
      [] l.Tier = ProTier -> ProMaxTokensPerRun
      [] OTHER -> FreeMaxTokensPerRun

GetTierName(l) ==
    CASE l.Tier = EnterpriseTier -> "Enterprise"
      [] l.Tier = ProTier -> "Pro"
      [] OTHER -> "Free"

\* StatusText that reports the runs left instead of the runs used
StatusTextRunsLeft(l) ==
    IF l.Tier = EnterpriseTier
    THEN [kind |-> "status", tierName |-> GetTierName(l), runs |-> l.DailyRuns,
          limit |-> "Unlimited", tokens |-> "Unlimited"]
    ELSE [kind |-> "status", tierName |-> GetTierName(l), runs |-> l.MaxRuns - l.DailyRuns,
          limit |-> l.MaxRuns, tokens |-> GetMaxTokens(l)]

\* the text GetStatus formats, as the values it is formatted from
StatusText(l) ==
    IF l.Tier = EnterpriseTier
    THEN [kind |-> "status", tierName |-> GetTierName(l), runs |-> l.DailyRuns,
          limit |-> "Unlimited", tokens |-> "Unlimited"]
    ELSE [kind |-> "status", tierName |-> GetTierName(l), runs |-> l.DailyRuns,
          limit |-> l.MaxRuns, tokens |-> GetMaxTokens(l)]

\* DeniedMsg that says no more than that the limit was reached
DeniedMsgBare(l) == <<"Daily limit reached">>

\* the message of a denial, as the values it is formatted from
DeniedMsg(l) == <<"Daily limit reached", l.DailyRuns, l.MaxRuns,
                  "Upgrade at https://bakerstreetproject221B.store/pricing">>

(* --------------------------- the environment -------------------------- *)

Tick(d) ==
    /\ now + d <= MaxTime
    /\ now' = now + d
    /\ UNCHANGED <<env, currentLicense, lic, mu, nAlloc, onceDone, onceM, pc, h, res,
                   before, clk, budget, allowed, denied, startRuns, resets, winStart, winCount, initRuns>>

SetEnv(k) ==
    /\ k # env
    /\ env' = k
    /\ UNCHANGED <<now, currentLicense, lic, mu, nAlloc, onceDone, onceM, pc, h, res,
                   before, clk, budget, allowed, denied, startRuns, resets, winStart, winCount, initRuns>>

(* ----------------------------- Initialize ----------------------------- *)

quotaUnchanged == UNCHANGED <<mu, res, before, clk, budget, allowed, denied, startRuns, resets, winStart, winCount>>

\* a goroutine calls Initialize()
InitializeCall(t) ==
    /\ pc[t] = "idle"
    /\ pc' = [pc EXCEPT ![t] = "once"]
    /\ UNCHANGED <<env, now, currentLicense, lic, nAlloc, onceDone, onceM, h, initRuns>>
    /\ quotaUnchanged

\* OnceFast of a Once that runs the body again
OnceFastReruns(t) ==
    /\ pc[t] = "once"
    /\ onceDone
    /\ pc' = [pc EXCEPT ![t] = "alloc"]
    /\ UNCHANGED <<env, now, currentLicense, lic, nAlloc, onceDone, onceM, h, initRuns>>
    /\ quotaUnchanged

\* OnceFast of a Once that lets a caller pass while the body is still running
OnceFastEarly(t) ==
    /\ pc[t] = "once"
    /\ onceDone \/ onceM # 0
    /\ pc' = [pc EXCEPT ![t] = "initRet"]
    /\ UNCHANGED <<env, now, currentLicense, lic, nAlloc, onceDone, onceM, h, initRuns>>
    /\ quotaUnchanged

\* once.Do, done already set: the body is skipped
OnceFast(t) ==
    /\ pc[t] = "once"
    /\ onceDone
    /\ pc' = [pc EXCEPT ![t] = "initRet"]
    /\ UNCHANGED <<env, now, currentLicense, lic, nAlloc, onceDone, onceM, h, initRuns>>
    /\ quotaUnchanged

\* OnceLock of a Once whose mutex excludes nobody
OnceLockNoGuard(t) ==
    /\ pc[t] = "once"
    /\ ~onceDone
    /\ onceM' = t
    /\ pc' = [pc EXCEPT ![t] = "alloc"]
    /\ UNCHANGED <<env, now, currentLicense, lic, nAlloc, onceDone, h, initRuns>>
    /\ quotaUnchanged

\* once.Do, done not set: take the mutex of the Once and run the body
OnceLock(t) ==
    /\ pc[t] = "once"
    /\ ~onceDone
    /\ onceM = 0
    /\ onceM' = t
    /\ pc' = [pc EXCEPT ![t] = "alloc"]
    /\ UNCHANGED <<env, now, currentLicense, lic, nAlloc, onceDone, h, initRuns>>
    /\ quotaUnchanged

\* key := os.Getenv(..); currentLicense = &License{Key: key, LastReset: time.Now()}
InitAlloc(t) ==
    /\ pc[t] = "alloc"
    /\ nAlloc < NumThreads
    /\ nAlloc' = nAlloc + 1
    /\ lic' = [lic EXCEPT ![nAlloc + 1] = [ZeroLicense EXCEPT !.Key = env, !.LastReset = now]]
    /\ currentLicense' = nAlloc + 1
    /\ initRuns' = initRuns + 1
    /\ pc' = [pc EXCEPT ![t] = "tier"]
    /\ UNCHANGED <<env, now, onceDone, onceM, h>>
    /\ quotaUnchanged

\* currentLicense.Tier = ...
InitTier(t) ==
    /\ pc[t] = "tier"
    /\ lic' = [lic EXCEPT ![currentLicense].Tier = ResolvedTier(lic[currentLicense].Key)]
    /\ pc' = [pc EXCEPT ![t] = "maxRuns"]
    /\ UNCHANGED <<env, now, currentLicense, nAlloc, onceDone, onceM, h, initRuns>>
    /\ quotaUnchanged

\* currentLicense.MaxRuns = ...
InitMaxRuns(t) ==
    /\ pc[t] = "maxRuns"
    /\ lic' = [lic EXCEPT ![currentLicense].MaxRuns = ResolvedMaxRuns(lic[currentLicense].Key)]
    /\ pc' = [pc EXCEPT ![t] = "onceUnlock"]
    /\ UNCHANGED <<env, now, currentLicense, nAlloc, onceDone, onceM, h, initRuns>>
    /\ quotaUnchanged

\* the body returned: done is stored and the mutex of the Once released
OnceUnlock(t) ==
    /\ pc[t] = "onceUnlock"
    /\ onceDone' = TRUE
    /\ onceM' = 0
    /\ pc' = [pc EXCEPT ![t] = "initRet"]
    /\ UNCHANGED <<env, now, currentLicense, lic, nAlloc, h, initRuns>>
    /\ quotaUnchanged

\* return currentLicense
InitializeReturn(t) ==
    /\ pc[t] = "initRet"
    /\ h' = [h EXCEPT ![t] = currentLicense]
    /\ pc' = [pc EXCEPT ![t] = "idle"]
    /\ UNCHANGED <<env, now, currentLicense, lic, nAlloc, onceDone, onceM, initRuns>>
    /\ quotaUnchanged

\* GetLicense(): the global is read without synchronisation
GetLicense(t) ==
    /\ pc[t] = "idle"
    /\ IF currentLicense = 0
       THEN pc' = [pc EXCEPT ![t] = "once"] /\ h' = h
       ELSE h' = [h EXCEPT ![t] = currentLicense] /\ pc' = pc
    /\ UNCHANGED <<env, now, currentLicense, lic, nAlloc, onceDone, onceM, initRuns>>
    /\ quotaUnchanged

(* ------------------------------- CanRun ------------------------------- *)

lifeUnchanged == UNCHANGED <<env, now, currentLicense, nAlloc, onceDone, onceM, h, initRuns>>

\* a goroutine calls l.CanRun() on the License it was handed
CanRunCall(t) ==
    /\ pc[t] = "idle"
    /\ h[t] # 0
    /\ budget[t] # 0
    /\ denied < MaxDenied \/ now - lic[h[t]].LastReset > Period
    /\ lic[h[t]].Tier = EnterpriseTier => lic[h[t]].DailyRuns < EntCap
    /\ budget' = [budget EXCEPT ![t] = IF @ > 0 THEN @ - 1 ELSE @]
    /\ pc' = [pc EXCEPT ![t] = "crLock"]
    /\ UNCHANGED <<lic, mu, res, before, clk, allowed, denied, startRuns, resets, winStart, winCount>>
    /\ lifeUnchanged

\* CanRunLock with a lock that excludes nobody
CanRunLockNoMutex(t) ==
    /\ pc[t] = "crLock"
    /\ mu' = [mu EXCEPT ![h[t]] = t]
    /\ before' = [before EXCEPT ![t] = lic[h[t]]]
    /\ pc' = [pc EXCEPT ![t] = "crReset"]
    /\ UNCHANGED <<lic, res, clk, budget, allowed, denied, startRuns, resets, winStart, winCount>>
    /\ lifeUnchanged

\* l.mu.Lock()
CanRunLock(t) ==
    /\ pc[t] = "crLock"
    /\ mu[h[t]] = 0
    /\ mu' = [mu EXCEPT ![h[t]] = t]
    /\ before' = [before EXCEPT ![t] = lic[h[t]]]
    /\ pc' = [pc EXCEPT ![t] = "crReset"]
    /\ UNCHANGED <<lic, res, clk, budget, allowed, denied, startRuns, resets, winStart, winCount>>
    /\ lifeUnchanged

\* ResetDue that never finds the period over
ResetDueNever(l, time) == FALSE

\* ResetDue that finds the period over after half of it
ResetDueHalfway(l, time) == 2 * (time - l.LastReset) > Period

\* if time.Since(l.LastReset) > 24*time.Hour
ResetDue(l, time) == time - l.LastReset > Period

\* CanRunReset that moves the period start on by one period
CanRunResetByPeriod(t) ==
    /\ pc[t] = "crReset"
    /\ clk' = [clk EXCEPT ![t] = now]
    /\ IF ResetDue(lic[h[t]], now)
       THEN /\ lic' = [lic EXCEPT ![h[t]].DailyRuns = 0, ![h[t]].LastReset = @ + Period]
            /\ allowed' = 0
            /\ denied' = 0
            /\ startRuns' = 0
            /\ resets' = resets + 1
       ELSE UNCHANGED <<lic, allowed, denied, startRuns, resets>>
    /\ pc' = [pc EXCEPT ![t] = "crCheck"]
    /\ UNCHANGED <<mu, res, before, budget, winStart, winCount>>
    /\ lifeUnchanged

\* CanRunReset that leaves the period start where it was
CanRunResetKeepsStart(t) ==
    /\ pc[t] = "crReset"
    /\ clk' = [clk EXCEPT ![t] = now]
    /\ IF ResetDue(lic[h[t]], now)
       THEN /\ lic' = [lic EXCEPT ![h[t]].DailyRuns = 0]
            /\ allowed' = 0
            /\ denied' = 0
            /\ startRuns' = 0
            /\ resets' = resets + 1
       ELSE UNCHANGED <<lic, allowed, denied, startRuns, resets>>
    /\ pc' = [pc EXCEPT ![t] = "crCheck"]
    /\ UNCHANGED <<mu, res, before, budget, winStart, winCount>>
    /\ lifeUnchanged

\* the reset of the daily counter
CanRunReset(t) ==
    /\ pc[t] = "crReset"
    /\ clk' = [clk EXCEPT ![t] = now]
    /\ IF ResetDue(lic[h[t]], now)
       THEN /\ lic' = [lic EXCEPT ![h[t]].DailyRuns = 0, ![h[t]].LastReset = now]
            /\ allowed' = 0
            /\ denied' = 0
            /\ startRuns' = 0
            /\ resets' = resets + 1
       ELSE UNCHANGED <<lic, allowed, denied, startRuns, resets>>
    /\ pc' = [pc EXCEPT ![t] = "crCheck"]
    /\ UNCHANGED <<mu, res, before, budget, winStart, winCount>>
    /\ lifeUnchanged

\* Exhausted with the limit test off by one
ExhaustedOffByOne(l) == l.Tier # EnterpriseTier /\ l.DailyRuns > l.MaxRuns

\* Exhausted without the Enterprise test
ExhaustedNoEnterprise(l) == l.DailyRuns >= l.MaxRuns

\* Exhausted that tests the limit of the Pro tier only
ExhaustedProOnly(l) == l.Tier = ProTier /\ l.DailyRuns >= l.MaxRuns

\* l.Tier == EnterpriseTier, or else l.DailyRuns >= l.MaxRuns
Exhausted(l) == l.Tier # EnterpriseTier /\ l.DailyRuns >= l.MaxRuns

\* CanRunCheck that counts the denied run too
CanRunCheckCountsDenial(t) ==
    /\ pc[t] = "crCheck"
    /\ IF Exhausted(lic[h[t]])
       THEN /\ res' = [res EXCEPT ![t] = [kind |-> "canRun", ok |-> FALSE,
                                          msg |-> DeniedMsg(lic[h[t]])]]
            /\ lic' = [lic EXCEPT ![h[t]].DailyRuns = @ + 1]
            /\ denied' = denied + 1
            /\ pc' = [pc EXCEPT ![t] = "crUnlock"]
       ELSE /\ pc' = [pc EXCEPT ![t] = "crInc"]
            /\ UNCHANGED <<lic, res, denied>>
    /\ UNCHANGED <<mu, before, clk, budget, allowed, startRuns, resets, winStart, winCount>>
    /\ lifeUnchanged

\* the Enterprise test and the limit test; the denial is returned from here
CanRunCheck(t) ==
    /\ pc[t] = "crCheck"
    /\ IF Exhausted(lic[h[t]])
       THEN /\ res' = [res EXCEPT ![t] = [kind |-> "canRun", ok |-> FALSE,
                                          msg |-> DeniedMsg(lic[h[t]])]]
            /\ denied' = denied + 1
            /\ pc' = [pc EXCEPT ![t] = "crUnlock"]
       ELSE /\ pc' = [pc EXCEPT ![t] = "crInc"]
            /\ UNCHANGED <<res, denied>>
    /\ UNCHANGED <<lic, mu, before, clk, budget, allowed, startRuns, resets, winStart, winCount>>
    /\ lifeUnchanged

\* CanRunInc that allows the run without counting it
CanRunIncForgets(t) ==
    /\ pc[t] = "crInc"
    /\ lic' = lic
    /\ res' = [res EXCEPT ![t] = [kind |-> "canRun", ok |-> TRUE, msg |-> <<>>]]
    /\ allowed' = allowed + 1
    /\ IF winStart = WinOff
       THEN UNCHANGED <<winStart, winCount>>
       ELSE IF winStart = NoClk \/ now - winStart >= Period
            THEN winStart' = now /\ winCount' = 1
            ELSE winStart' = winStart /\ winCount' = winCount + 1
    /\ pc' = [pc EXCEPT ![t] = "crUnlock"]
    /\ UNCHANGED <<mu, before, clk, budget, denied, startRuns, resets>>
    /\ lifeUnchanged

\* CanRunInc that counts the run downwards
CanRunIncCountsDown(t) ==
    /\ pc[t] = "crInc"
    /\ lic' = [lic EXCEPT ![h[t]].DailyRuns = @ - 1]
    /\ res' = [res EXCEPT ![t] = [kind |-> "canRun", ok |-> TRUE, msg |-> <<>>]]
    /\ allowed' = allowed + 1
    /\ IF winStart = WinOff
       THEN UNCHANGED <<winStart, winCount>>
       ELSE IF winStart = NoClk \/ now - winStart >= Period
            THEN winStart' = now /\ winCount' = 1
            ELSE winStart' = winStart /\ winCount' = winCount + 1
    /\ pc' = [pc EXCEPT ![t] = "crUnlock"]
    /\ UNCHANGED <<mu, before, clk, budget, denied, startRuns, resets>>
    /\ lifeUnchanged

\* CanRunInc that counts the run twice
CanRunIncTwice(t) ==
    /\ pc[t] = "crInc"
    /\ lic' = [lic EXCEPT ![h[t]].DailyRuns = @ + 2]
    /\ res' = [res EXCEPT ![t] = [kind |-> "canRun", ok |-> TRUE, msg |-> <<>>]]
    /\ allowed' = allowed + 1
    /\ IF winStart = WinOff
       THEN UNCHANGED <<winStart, winCount>>
       ELSE IF winStart = NoClk \/ now - winStart >= Period
            THEN winStart' = now /\ winCount' = 1
            ELSE winStart' = winStart /\ winCount' = winCount + 1
    /\ pc' = [pc EXCEPT ![t] = "crUnlock"]
    /\ UNCHANGED <<mu, before, clk, budget, denied, startRuns, resets>>
    /\ lifeUnchanged

\* l.DailyRuns++ ; return true, ""
CanRunInc(t) ==
    /\ pc[t] = "crInc"
    /\ lic' = [lic EXCEPT ![h[t]].DailyRuns = @ + 1]
    /\ res' = [res EXCEPT ![t] = [kind |-> "canRun", ok |-> TRUE, msg |-> <<>>]]
    /\ allowed' = allowed + 1
    /\ IF winStart = WinOff
       THEN UNCHANGED <<winStart, winCount>>
       ELSE IF winStart = NoClk \/ now - winStart >= Period
            THEN winStart' = now /\ winCount' = 1
            ELSE winStart' = winStart /\ winCount' = winCount + 1
    /\ pc' = [pc EXCEPT ![t] = "crUnlock"]
    /\ UNCHANGED <<mu, before, clk, budget, denied, startRuns, resets>>
    /\ lifeUnchanged

\* the deferred l.mu.Unlock(), and the return to the caller
CanRunUnlock(t) ==
    /\ pc[t] = "crUnlock"
    /\ mu' = [mu EXCEPT ![h[t]] = 0]
    /\ res' = [res EXCEPT ![t] = NoRes]
    /\ before' = [before EXCEPT ![t] = ZeroLicense]
    /\ clk' = [clk EXCEPT ![t] = NoClk]
    /\ pc' = [pc EXCEPT ![t] = "idle"]
    /\ UNCHANGED <<lic, budget, allowed, denied, startRuns, resets, winStart, winCount>>
    /\ lifeUnchanged

(* ------------------------------ GetStatus ----------------------------- *)

\* a goroutine calls l.GetStatus() on the License it was handed
GetStatusCall(t) ==
    /\ pc[t] = "idle"
    /\ h[t] # 0
    /\ pc' = [pc EXCEPT ![t] = "gsLock"]
    /\ UNCHANGED <<lic, mu, res, before, clk, budget, allowed, denied, startRuns, resets, winStart, winCount>>
    /\ lifeUnchanged

\* GetStatusLock with a lock that excludes nobody
GetStatusLockNoMutex(t) ==
    /\ pc[t] = "gsLock"
    /\ mu' = [mu EXCEPT ![h[t]] = t]
    /\ before' = [before EXCEPT ![t] = lic[h[t]]]
    /\ clk' = [clk EXCEPT ![t] = now]
    /\ pc' = [pc EXCEPT ![t] = "gsRead"]
    /\ UNCHANGED <<lic, res, budget, allowed, denied, startRuns, resets, winStart, winCount>>
    /\ lifeUnchanged

\* l.mu.Lock()
GetStatusLock(t) ==
    /\ pc[t] = "gsLock"
    /\ mu[h[t]] = 0
    /\ mu' = [mu EXCEPT ![h[t]] = t]
    /\ before' = [before EXCEPT ![t] = lic[h[t]]]
    /\ clk' = [clk EXCEPT ![t] = now]
    /\ pc' = [pc EXCEPT ![t] = "gsRead"]
    /\ UNCHANGED <<lic, res, budget, allowed, denied, startRuns, resets, winStart, winCount>>
    /\ lifeUnchanged

\* GetStatusRead whose accessors take l.mu again
GetStatusReadRelocks(t) ==
    /\ pc[t] = "gsRead"
    /\ mu[h[t]] = 0
    /\ res' = [res EXCEPT ![t] = StatusText(lic[h[t]])]
    /\ pc' = [pc EXCEPT ![t] = "gsUnlock"]
    /\ UNCHANGED <<lic, mu, before, clk, budget, allowed, denied, startRuns, resets, winStart, winCount>>
    /\ lifeUnchanged

\* the fields are read and formatted
GetStatusRead(t) ==
    /\ pc[t] = "gsRead"
    /\ res' = [res EXCEPT ![t] = StatusText(lic[h[t]])]
    /\ pc' = [pc EXCEPT ![t] = "gsUnlock"]
    /\ UNCHANGED <<lic, mu, before, clk, budget, allowed, denied, startRuns, resets, winStart, winCount>>
    /\ lifeUnchanged

\* the deferred l.mu.Unlock(), and the return to the caller
GetStatusUnlock(t) ==
    /\ pc[t] = "gsUnlock"
    /\ mu' = [mu EXCEPT ![h[t]] = 0]
    /\ res' = [res EXCEPT ![t] = NoRes]
    /\ before' = [before EXCEPT ![t] = ZeroLicense]
    /\ clk' = [clk EXCEPT ![t] = NoClk]
    /\ pc' = [pc EXCEPT ![t] = "idle"]
    /\ UNCHANGED <<lic, budget, allowed, denied, startRuns, resets, winStart, winCount>>
    /\ lifeUnchanged

(* ----------------------------- GetMaxTokens --------------------------- *)

\* a goroutine calls l.GetMaxTokens(): l.Tier is read without the lock
GetMaxTokensCall(t) ==
    /\ pc[t] = "idle"
    /\ h[t] # 0
    /\ before' = [before EXCEPT ![t] = lic[h[t]]]
    /\ res' = [res EXCEPT ![t] = [kind |-> "tokens", value |-> GetMaxTokens(lic[h[t]])]]
    /\ pc' = [pc EXCEPT ![t] = "gmtRet"]
    /\ UNCHANGED <<lic, mu, clk, budget, allowed, denied, startRuns, resets, winStart, winCount>>
    /\ lifeUnchanged

\* the return to the caller
GetMaxTokensReturn(t) ==
    /\ pc[t] = "gmtRet"
    /\ res' = [res EXCEPT ![t] = NoRes]
    /\ before' = [before EXCEPT ![t] = ZeroLicense]
    /\ pc' = [pc EXCEPT ![t] = "idle"]
    /\ UNCHANGED <<lic, mu, clk, budget, allowed, denied, startRuns, resets, winStart, winCount>>
    /\ lifeUnchanged

(* ----------------------------- GetTierName ---------------------------- *)

\* a goroutine calls l.GetTierName(): l.Tier is read without the lock
GetTierNameCall(t) ==
    /\ pc[t] = "idle"
    /\ h[t] # 0
    /\ before' = [before EXCEPT ![t] = lic[h[t]]]
    /\ res' = [res EXCEPT ![t] = [kind |-> "name", value |-> GetTierName(lic[h[t]])]]
    /\ pc' = [pc EXCEPT ![t] = "gtnRet"]
    /\ UNCHANGED <<lic, mu, clk, budget, allowed, denied, startRuns, resets, winStart, winCount>>
    /\ lifeUnchanged

\* the return to the caller
GetTierNameReturn(t) ==
    /\ pc[t] = "gtnRet"
    /\ res' = [res EXCEPT ![t] = NoRes]
    /\ before' = [before EXCEPT ![t] = ZeroLicense]
    /\ pc' = [pc EXCEPT ![t] = "idle"]
    /\ UNCHANGED <<lic, mu, clk, budget, allowed, denied, startRuns, resets, winStart, winCount>>
    /\ lifeUnchanged

(* --------------------------- specifications --------------------------- *)

\* the steps of Initialize and GetLicense
LifeStep(t) ==
    \/ InitializeCall(t)
    \/ OnceFast(t)
    \/ OnceLock(t)
    \/ InitAlloc(t)
    \/ InitTier(t)
    \/ InitMaxRuns(t)
    \/ OnceUnlock(t)
    \/ InitializeReturn(t)
    \/ GetLicense(t)

\* the steps of CanRun and GetStatus
QuotaStep(t) ==
    \/ CanRunCall(t)
    \/ CanRunLock(t)
    \/ CanRunReset(t)
    \/ CanRunCheck(t)
    \/ CanRunInc(t)
    \/ CanRunUnlock(t)
    \/ GetStatusCall(t)
    \/ GetStatusLock(t)
    \/ GetStatusRead(t)
    \/ GetStatusUnlock(t)

\* the steps of GetMaxTokens
TokenStep(t) ==
    \/ GetMaxTokensCall(t)
    \/ GetMaxTokensReturn(t)

\* the steps of GetTierName
NameStep(t) ==
    \/ GetTierNameCall(t)
    \/ GetTierNameReturn(t)

\* the process at its start: nothing initialised
ProcessStart(keys, b, w) ==
    /\ env \in keys
    /\ now = 0
    /\ currentLicense = 0
    /\ lic = [i \in LicIds |-> ZeroLicense]
    /\ mu = [i \in LicIds |-> 0]
    /\ nAlloc = 0
    /\ onceDone = FALSE
    /\ onceM = 0
    /\ pc = [t \in Threads |-> "idle"]
    /\ h = [t \in Threads |-> 0]
    /\ res = [t \in Threads |-> NoRes]
    /\ before = [t \in Threads |-> ZeroLicense]
    /\ clk = [t \in Threads |-> NoClk]
    /\ budget = [t \in Threads |-> b]
    /\ allowed = 0
    /\ denied = 0
    /\ resets = 0
    /\ startRuns = 0
    /\ winStart = w
    /\ winCount = 0
    /\ initRuns = 0

\* the License Initialize() builds at hour 0 from credential key, after d allowed runs
Initialized(key, d) ==
    [Tier |-> ResolvedTier(key), Key |-> key, DailyRuns |-> d,
     MaxRuns |-> ResolvedMaxRuns(key), LastReset |-> 0]

\* the counter values the concurrent quota specification starts from
StartRuns(key) ==
    IF ResolvedTier(key) = EnterpriseTier
    THEN {0}
    ELSE {0} \cup {ResolvedMaxRuns(key) - k : k \in 0..MaxSlots}

\* the process after Initialize() returned to every goroutine and d runs were
\* allowed, each goroutine with b CanRun calls to make
AfterInitialize(b) ==
    /\ env \in EnvKeys
    /\ now = 0
    /\ currentLicense = 1
    /\ \E d \in StartRuns(env) :
          /\ lic = [i \in LicIds |-> IF i = 1 THEN Initialized(env, d) ELSE ZeroLicense]
          /\ startRuns = d
    /\ mu = [i \in LicIds |-> 0]
    /\ nAlloc = 1
    /\ onceDone = TRUE
    /\ onceM = 0
    /\ pc = [t \in Threads |-> "idle"]
    /\ h = [t \in Threads |-> 1]
    /\ res = [t \in Threads |-> NoRes]
    /\ before = [t \in Threads |-> ZeroLicense]
    /\ clk = [t \in Threads |-> NoClk]
    /\ budget = [t \in Threads |-> b]
    /\ allowed = 0
    /\ denied = 0
    /\ resets = 0
    /\ winStart = WinOff
    /\ winCount = 0
    /\ initRuns = 1

\* every goroutine, from the start of the process, within hour 0
Init == ProcessStart(EnvKeys, LifeCalls, WinOff)

Next ==
    \/ \E k \in EnvKeys : SetEnv(k)
    \/ \E t \in Threads : LifeStep(t)
    \/ \E t \in Threads : QuotaStep(t)

Spec == Init /\ [][Next]_vars

\* every goroutine calling CanRun and GetStatus on the initialised License
InitQuota == AfterInitialize(MaxCalls)

NextQuota ==
    \/ \E d \in TickSteps : Tick(d)
    \/ \E t \in Threads : QuotaStep(t)

SpecQuota == InitQuota /\ [][NextQuota]_vars

\* l.mu.Lock() of either operation
LockStep(t) ==
    \/ CanRunLock(t)
    \/ GetStatusLock(t)

\* the steps of either operation between Lock and the return
BodyStep(t) ==
    \/ CanRunReset(t)
    \/ CanRunCheck(t)
    \/ CanRunInc(t)
    \/ CanRunUnlock(t)
    \/ GetStatusRead(t)
    \/ GetStatusUnlock(t)

\* a running goroutine keeps running; a goroutine waiting for a sync.Mutex
\* that is released again and again obtains it (starvation mode)
Fairness ==
    \A t \in Threads : WF_vars(BodyStep(t)) /\ SF_vars(LockStep(t))

\* every goroutine calling CanRun and GetStatus within hour 0 on a License
\* with one slot left or none (or on the Enterprise License), under fair
\* scheduling
InitLive ==
    /\ AfterInitialize(MaxCalls)
    /\ lic[1].Tier # EnterpriseTier => lic[1].DailyRuns >= lic[1].MaxRuns - 1

NextLive == \E t \in Threads : QuotaStep(t)

SpecLive == InitLive /\ [][NextLive]_vars /\ Fairness

\* one goroutine that keeps calling CanRun on a License with one slot left or
\* none, while the clock keeps advancing as far as it goes
InitRetry ==
    /\ AfterInitialize(-1)
    /\ lic[1].Tier # EnterpriseTier => lic[1].DailyRuns >= lic[1].MaxRuns - 1

NextRetry ==
    \/ \E d \in TickSteps : Tick(d)
    \/ QuotaStep(1)

\* the clock advances while it can, and the caller calls CanRun again and
\* again whatever else it does in between
FairnessRetry ==
    /\ WF_vars(\E d \in TickSteps : Tick(d))
    /\ SF_vars(CanRunCall(1))
    /\ WF_vars(BodyStep(1))
    /\ SF_vars(LockStep(1))

SpecRetry == InitRetry /\ [][NextRetry]_vars /\ FairnessRetry

\* one goroutine, from the start of the process, calling without a budget;
\* the runs allowed within 24 hours are counted
InitSeq == ProcessStart(EnvKeys, -1, NoClk)

NextSeq ==
    \/ \E d \in TickSteps : Tick(d)
    \/ LifeStep(1)
    \/ QuotaStep(1)
    \/ TokenStep(1)
    \/ NameStep(1)

SpecSeq == InitSeq /\ [][NextSeq]_vars

\* one goroutine resolving each credential of KeyInputs and reading the result
InitKeys == ProcessStart(KeyInputs, 0, WinOff)

NextKeys ==
    \/ LifeStep(1)
    \/ TokenStep(1)
    \/ NameStep(1)

SpecKeys == InitKeys /\ [][NextKeys]_vars

(* ------------------------------- claims ------------------------------- *)

\* the License the package hands out, and whether its tier has a run limit
TheLicense == lic[1]
Bounded(l) == l.Tier # EnterpriseTier
InCanRun(t) == pc[t] \in {"crReset", "crCheck", "crInc", "crUnlock"}

\* C1: with k = MaxRuns - DailyRuns slots left on a Free or Pro License and no
\* reset in between, of the n CanRun calls decided so far, under every
\* interleaving, exactly min(n, k) were allowed and the others denied.
C1_ExactAdmission ==
    Bounded(TheLicense) =>
        allowed = Min(allowed + denied, TheLicense.MaxRuns - startRuns)

\* two goroutines called once each with one slot left: one allowed, one denied
C1_Witness ==
    /\ Bounded(TheLicense)
    /\ resets = 0
    /\ startRuns = TheLicense.MaxRuns - 1
    /\ \A t \in {1, 2} : budget[t] = MaxCalls - 1
    /\ allowed = 1
    /\ denied = 1
    /\ pc[2] = "crUnlock" /\ res[2].kind = "canRun" /\ ~res[2].ok

\* C2: on a freshly initialised Free or Pro License, with no period reset, the
\* i-th CanRun call returns allowed exactly when i <= MaxRuns: the first
\* MaxRuns calls are allowed and every further one is denied.
C2_FirstMaxRunsAllowed ==
    \A t \in Threads :
        (pc[t] = "crUnlock" /\ Bounded(lic[h[t]]) /\ resets = 0) =>
            (res[t].ok <=> (allowed + denied <= lic[h[t]].MaxRuns))

\* the sixth call on a fresh Free License is being denied
C2_Witness ==
    /\ pc[1] = "crUnlock"
    /\ lic[h[1]].Tier = FreeTier
    /\ resets = 0
    /\ allowed = FreeMaxRunsPerDay
    /\ denied = 1
    /\ ~res[1].ok

\* C3: a CanRun call that returns denied leaves the counter where it found it,
\* and Tier, MaxRuns, Key and LastReset as well.
C3_DeniedLeavesState ==
    \A t \in Threads :
        (pc[t] = "crUnlock" /\ ~res[t].ok) => lic[h[t]] = before[t]

\* a call on an exhausted License returns denied
C3_Witness ==
    \E t \in Threads :
        /\ pc[t] = "crUnlock"
        /\ ~res[t].ok
        /\ before[t].DailyRuns = before[t].MaxRuns
        /\ before[t].DailyRuns > 0

\* C4: CanRun on a Free License with the counter at 5 and the period start more
\* than 24 hours back first sets DailyRuns to 0 and LastReset to the current
\* time, then returns allowed with DailyRuns at 1.
C4_ResetThenAllowed ==
    \A t \in Threads :
        (/\ InCanRun(t)
         /\ before[t].Tier = FreeTier
         /\ before[t].DailyRuns = FreeMaxRunsPerDay
         /\ clk[t] - before[t].LastReset > Period) =>
            /\ lic[h[t]].LastReset = clk[t]
            /\ pc[t] = "crCheck" => lic[h[t]].DailyRuns = 0
            /\ pc[t] # "crCheck" => pc[t] = "crInc" \/ (pc[t] = "crUnlock" /\ res[t].ok)
            /\ pc[t] = "crUnlock" => lic[h[t]].DailyRuns = 1

\* the exhausted Free License is called 25 hours into the period and allows the run
C4_Witness ==
    \E t \in Threads :
        /\ pc[t] = "crUnlock"
        /\ before[t].Tier = FreeTier
        /\ before[t].DailyRuns = FreeMaxRunsPerDay
        /\ clk[t] - before[t].LastReset > Period
        /\ res[t].ok
        /\ lic[h[t]].DailyRuns = 1

\* C5: CanRun resets the counter and moves the period start to the current time
\* whenever at least 24 hours have passed since the period start, the case of
\* exactly 24 hours included; an exhausted License called then allows the run.
C5_ResetAtOrAfterPeriod ==
    \A t \in Threads :
        (/\ pc[t] \in {"crCheck", "crInc", "crUnlock"}
         /\ Bounded(before[t])
         /\ clk[t] - before[t].LastReset >= Period) =>
            /\ lic[h[t]].LastReset = clk[t]
            /\ pc[t] = "crCheck" => lic[h[t]].DailyRuns = 0
            /\ pc[t] = "crUnlock" => res[t].ok

\* C6: GetStatus reports the counter a CanRun call at the same instant would
\* evaluate against: 0 when the reset is due at the time of the call.
C6_StatusReflectsReset ==
    \A t \in Threads :
        pc[t] = "gsUnlock" =>
            res[t].runs = (IF ResetDue(before[t], clk[t]) THEN 0 ELSE before[t].DailyRuns)

\* a License whose Tier and MaxRuns are the ones resolved from its credential
FullyInitialised(l) ==
    /\ l.Tier = ResolvedTier(l.Key)
    /\ l.MaxRuns = ResolvedMaxRuns(l.Key)

\* C7: every License a caller obtained from Initialize or GetLicense has Tier
\* and MaxRuns already set to the values resolved from the credential.
C7_HandleFullyInitialised ==
    \A t \in Threads : h[t] # 0 => FullyInitialised(lic[h[t]])

\* C8: however many goroutines race the first access, the body of Initialize
\* runs once and every caller is handed the same License.
C8_SingleInstance ==
    /\ initRuns <= 1
    /\ nAlloc <= 1
    /\ onceDone => initRuns = 1
    /\ \A t \in Threads : h[t] # 0 => h[t] = currentLicense
    /\ \A t, u \in Threads : (h[t] # 0 /\ h[u] # 0) => h[t] = h[u]

\* goroutine 2 never called CanRun and reads, through its own handle, the
\* runs goroutine 1 consumed
C8_Witness ==
    /\ h[1] # 0
    /\ budget[1] < LifeCalls
    /\ budget[2] = LifeCalls
    /\ pc[2] = "gsUnlock"
    /\ res[2].runs >= 1

InitializePcs == {"once", "alloc", "tier", "maxRuns", "onceUnlock", "initRet"}

\* C9: once the first Initialize completed, no step of a later Initialize call
\* reads the credential again or changes the License, whatever LICENSE_KEY
\* holds by then, and the call returns the existing License.
C9_InitializeIdempotent ==
    [][onceDone =>
          \A t \in Threads :
              (pc[t] \in InitializePcs /\ pc'[t] # pc[t]) =>
                  /\ lic' = lic
                  /\ currentLicense' = currentLicense
                  /\ initRuns' = initRuns
                  /\ pc'[t] = "idle" => h'[t] = currentLicense]_vars

\* a later Initialize is returning while LICENSE_KEY names another tier and
\* runs were consumed
C9_Witness ==
    \E t \in Threads :
        /\ onceDone
        /\ h[t] # 0
        /\ pc[t] = "initRet"
        /\ ResolvedTier(env) # lic[currentLicense].Tier
        /\ lic[currentLicense].DailyRuns > 0

\* C10: on an Enterprise License every CanRun call returns allowed, whatever
\* the counter, and leaves the counter one above the value it evaluated.
C10_EnterpriseAlwaysAllowed ==
    \A t \in Threads :
        (pc[t] = "crUnlock" /\ before[t].Tier = EnterpriseTier) =>
            /\ res[t].ok
            /\ lic[h[t]].MaxRuns = EnterpriseMaxRuns
            /\ lic[h[t]].DailyRuns =
                  (IF lic[h[t]].LastReset = before[t].LastReset
                   THEN before[t].DailyRuns ELSE 0) + 1

\* the Enterprise License allows a run with the counter far above MaxRuns
C10_Witness ==
    /\ pc[1] = "crUnlock"
    /\ before[1].Tier = EnterpriseTier
    /\ before[1].DailyRuns = EntCap - 1
    /\ res[1].ok
    /\ lic[h[1]].DailyRuns = EntCap

\* the first four characters of credential k are a, b, c, d
StartsWith(k, a, b, c, d) ==
    Len(k) >= 4 /\ k[1] = a /\ k[2] = b /\ k[3] = c /\ k[4] = d

\* starts with PRO_ or ENT_ and is at least 20 characters long, marker included
WellFormed(k) ==
    /\ StartsWith(k, "P", "R", "O", "_") \/ StartsWith(k, "E", "N", "T", "_")
    /\ Len(k) >= MinKeyLen

\* C11: initialisation resolves every credential to one tier with the matching
\* run limit and always completes: empty gives Free (5), rejected by
\* validateKey gives Free (5), valid with PRO_ gives Pro (100), valid with
\* ENT_ gives Enterprise (-1).
C11_CredentialResolution ==
    /\ pc[1] \in InitializePcs => ENABLED LifeStep(1)
    /\ onceDone =>
          LET l == lic[currentLicense]
              k == l.Key
          IN  /\ k = env
              /\ l.Tier \in {FreeTier, ProTier, EnterpriseTier}
              /\ k = <<>> =>
                    l.Tier = FreeTier /\ l.MaxRuns = FreeMaxRunsPerDay
              /\ (k # <<>> /\ ~validateKey(k)) =>
                    l.Tier = FreeTier /\ l.MaxRuns = FreeMaxRunsPerDay
              /\ (validateKey(k) /\ StartsWith(k, "P", "R", "O", "_")) =>
                    l.Tier = ProTier /\ l.MaxRuns = ProMaxRunsPerDay
              /\ (validateKey(k) /\ StartsWith(k, "E", "N", "T", "_")) =>
                    l.Tier = EnterpriseTier /\ l.MaxRuns = EnterpriseMaxRuns

\* a PRO_ credential one character short was resolved to Free
C11_Witness ==
    /\ onceDone
    /\ h[1] = currentLicense
    /\ StartsWith(lic[h[1]].Key, "P", "R", "O", "_")
    /\ Len(lic[h[1]].Key) = MinKeyLen - 1
    /\ lic[h[1]].Tier = FreeTier
    /\ lic[h[1]].MaxRuns = FreeMaxRunsPerDay

\* C12: validateKey accepts a credential exactly when it starts with PRO_ or
\* ENT_ and is at least 20 characters long; Initialize grants a paid tier to
\* exactly the credentials it accepts.
C12_ValidateKeyIff ==
    /\ validateKey(env) <=> WellFormed(env)
    /\ onceDone =>
          (lic[currentLicense].Tier # FreeTier <=> WellFormed(lic[currentLicense].Key))

\* an ENT_ credential of exactly 20 characters was accepted
C12_Witness ==
    /\ onceDone
    /\ StartsWith(lic[currentLicense].Key, "E", "N", "T", "_")
    /\ Len(lic[currentLicense].Key) = MinKeyLen
    /\ validateKey(lic[currentLicense].Key)
    /\ lic[currentLicense].Tier = EnterpriseTier

\* C13: the quota is enforced per period, not over every 24-hour interval:
\* between one period reset (or the initialisation) and the next at most
\* MaxRuns calls are allowed on a Free or Pro License, and the counter is their
\* number; the 24 hours that follow an allowed run hold at most 2 * MaxRuns.
C13_PerPeriodQuota ==
    (onceDone /\ Bounded(TheLicense)) =>
        /\ allowed <= TheLicense.MaxRuns
        /\ TheLicense.DailyRuns = startRuns + allowed
        /\ winCount <= 2 * TheLicense.MaxRuns

\* the claim as stated: no 24 hours hold more than MaxRuns allowed runs
C13_RollingWindow ==
    (onceDone /\ Bounded(TheLicense)) => winCount <= TheLicense.MaxRuns

\* five Free runs at hour 12 or 13, a reset at hour 25, five more: ten runs
\* within 13 hours
C13_Witness ==
    /\ TheLicense.Tier = FreeTier
    /\ resets = 1
    /\ now - winStart < Period
    /\ winCount = 2 * FreeMaxRunsPerDay
    /\ allowed = FreeMaxRunsPerDay

\* between l.mu.Lock() and the deferred Unlock of CanRun or GetStatus
InCritical(t) == InCanRun(t) \/ pc[t] \in {"gsRead", "gsUnlock"}

\* the License a CanRun call alone would leave behind after its reset step
AfterReset(t) ==
    IF ResetDue(before[t], clk[t])
    THEN [before[t] EXCEPT !.DailyRuns = 0, !.LastReset = clk[t]]
    ELSE before[t]

\* C14: CanRun and GetStatus on one License exclude each other: at most one
\* call is between Lock and Unlock, each call finds the License as a
\* sequential execution would and changes it by its own steps only, and
\* GetStatus reports the counter as it stood when it took the lock, never a
\* value from the middle of a CanRun call.
C14_MutualExclusion ==
    /\ \A t, u \in Threads :
          (t # u /\ h[t] = h[u] /\ InCritical(t)) => ~InCritical(u)
    /\ \A t \in Threads :
          /\ InCritical(t) => mu[h[t]] = t
          /\ pc[t] = "crReset" => lic[h[t]] = before[t]
          /\ pc[t] \in {"crCheck", "crInc"} => lic[h[t]] = AfterReset(t)
          /\ pc[t] = "crUnlock" =>
                lic[h[t]] = [AfterReset(t) EXCEPT
                                !.DailyRuns = IF res[t].ok THEN @ + 1 ELSE @]
          /\ pc[t] \in {"gsRead", "gsUnlock"} => lic[h[t]] = before[t]
          /\ pc[t] = "gsUnlock" => res[t].runs = before[t].DailyRuns

\* a CanRun call stands between its reset and its increment with the counter
\* at 0 while a GetStatus call waits for the lock
C14_Witness ==
    \E t, u \in Threads :
        /\ pc[t] = "crInc"
        /\ before[t].DailyRuns > 0
        /\ lic[h[t]].DailyRuns = 0
        /\ pc[u] = "gsLock"
        /\ h[u] = h[t]

\* the per-run token limit of each tier
TierTokens(tier) ==
    IF tier = FreeTier THEN FreeMaxTokensPerRun
    ELSE IF tier = ProTier THEN ProMaxTokensPerRun
    ELSE EnterpriseMaxTokens

\* C15: GetMaxTokens returns the token limit of the License's tier (1000 for
\* Free, 10000 for Pro, -1 for Enterprise) whatever DailyRuns and LastReset
\* are, and leaves every field of the License as it found it.
C15_TokenLimitByTier ==
    \A t \in Threads :
        pc[t] = "gmtRet" =>
            /\ res[t].value = TierTokens(before[t].Tier)
            /\ res[t].value \in {1000, 10000, -1}
            /\ lic[h[t]] = before[t]

\* GetMaxTokens returns 10000 on a Pro License with runs consumed in a period
\* that began at a reset
C15_Witness ==
    /\ pc[1] = "gmtRet"
    /\ resets = 1
    /\ before[1].Tier = ProTier
    /\ before[1].DailyRuns > 1
    /\ before[1].LastReset > 0
    /\ res[1].value = ProMaxTokensPerRun

\* C16: in every reachable state, whatever calls of Initialize, CanRun,
\* GetStatus and GetMaxTokens were made and on whatever tier, DailyRuns is at
\* least 0, and so is every value of it a call found or reported.
C16_DailyRunsNonNegative ==
    /\ \A i \in LicIds : lic[i].DailyRuns >= 0
    /\ \A t \in Threads :
          /\ before[t].DailyRuns >= 0
          /\ res[t].kind = "status" => res[t].runs >= 0

\* the Enterprise License counted runs far beyond its MaxRuns of -1
C16_Witness ==
    /\ TheLicense.Tier = EnterpriseTier
    /\ TheLicense.MaxRuns < 0
    /\ TheLicense.DailyRuns = EntCap
    /\ pc[1] = "gsUnlock"
    /\ res[1].runs = EntCap

\* C17: LastReset never decreases; it changes only when Initialize builds the
\* License and when a due period reset is performed, each time to the current
\* time.
C17_LastResetMonotonic ==
    [][\A i \in LicIds :
          /\ lic'[i].LastReset >= lic[i].LastReset
          /\ lic'[i].LastReset # lic[i].LastReset =>
                /\ lic'[i].LastReset = now
                /\ \/ \E t \in Threads :
                         pc[t] = "alloc" /\ pc'[t] = "tier" /\ currentLicense' = i
                   \/ \E t \in Threads :
                         /\ pc[t] = "crReset" /\ pc'[t] = "crCheck"
                         /\ h[t] = i
                         /\ now - lic[i].LastReset > Period]_vars

\* a period reset moved the period start from hour 0 to hour 25
C17_Witness ==
    /\ pc[1] = "crCheck"
    /\ before[1].LastReset = 0
    /\ resets = 1
    /\ now > Period
    /\ lic[h[1]].LastReset = now

\* C18: every denied CanRun result is a returned value whose non-empty message
\* states the current usage, the limit and the upgrade pointer; every allowed
\* result carries the empty message.
C18_DenialMessage ==
    \A t \in Threads :
        pc[t] = "crUnlock" =>
            /\ res[t].kind = "canRun"
            /\ res[t].ok => res[t].msg = <<>>
            /\ ~res[t].ok =>
                  /\ res[t].msg # <<>>
                  /\ Len(res[t].msg) = 4
                  /\ res[t].msg[2] = lic[h[t]].DailyRuns
                  /\ res[t].msg[3] = lic[h[t]].MaxRuns
                  /\ res[t].msg[4] = "Upgrade at https://bakerstreetproject221B.store/pricing"

\* the exhausted Pro License denies a run with the message "100/100"
C18_Witness ==
    \E t \in Threads :
        /\ pc[t] = "crUnlock"
        /\ ~res[t].ok
        /\ lic[h[t]].Tier = ProTier
        /\ res[t].msg[2] = ProMaxRunsPerDay
        /\ res[t].msg[3] = ProMaxRunsPerDay

\* C20: the entitlement state is never handed out by reference: what a caller
\* holds is never the License the package itself keeps and updates.
C20_NeverHandedOutByReference ==
    \A t \in Threads : h[t] # 0 => h[t] # currentLicense

\* C21: Initialize and GetLicense never return nil, whether called before,
\* during or after the first initialisation and by however many goroutines:
\* a call about to return finds the global set, a call that left once.Do
\* finds the Once done, and every handle held is an allocated License.
C21_NeverNil ==
    /\ \A t \in Threads :
          /\ pc[t] = "initRet" => (onceDone /\ currentLicense # 0)
          /\ h[t] # 0 => h[t] \in 1..nAlloc
    /\ onceDone => currentLicense # 0

\* the first Initialize is returning its License while a goroutine that
\* called during the initialisation is still held at once.Do
C21_Witness ==
    \E t, u \in Threads :
        /\ pc[t] = "initRet"
        /\ h[t] = 0
        /\ pc[u] = "once"
        /\ h[u] = 0
        /\ currentLicense # 0

\* C22: when a period reset is due and several CanRun calls arrive together on
\* a Free or Pro License, the reset is performed once: each reset needs more
\* than 24 hours since the one before, and after it the counter is the number
\* of calls allowed since, min(calls decided, MaxRuns), none of them erased.
C22_ResetOnce ==
    Bounded(TheLicense) =>
        /\ resets * (Period + 1) <= now
        /\ resets >= 1 =>
              /\ TheLicense.LastReset > Period
              /\ TheLicense.DailyRuns = allowed
              /\ allowed = Min(allowed + denied, TheLicense.MaxRuns)
              /\ \A t \in Threads :
                    (InCanRun(t) /\ pc[t] # "crReset" /\ before[t].LastReset > Period) =>
                        lic[h[t]].LastReset = before[t].LastReset

\* the first call of the group performed the reset and allowed its run while
\* the second waits for the lock
C22_Witness ==
    \E t, u \in Threads :
        /\ Bounded(TheLicense)
        /\ pc[t] = "crUnlock"
        /\ ResetDue(before[t], clk[t])
        /\ before[t].DailyRuns > 0
        /\ res[t].ok
        /\ lic[h[t]].DailyRuns = 1
        /\ pc[u] = "crLock"

\* the goroutine has a step to take, or waits for a lock whose holder is
\* inside its critical section and has a step to take
CanProceed(t) ==
    \/ ENABLED QuotaStep(t)
    \/ /\ pc[t] \in {"crLock", "gsLock"}
       /\ \E u \in Threads \ {t} :
             mu[h[t]] = u /\ h[u] = h[t] /\ InCritical(u) /\ ENABLED BodyStep(u)

\* C23: the lock is held only by a call inside its critical section, so it is
\* released on every exit path; no pending call is stuck; and under fair
\* scheduling every pending CanRun or GetStatus call returns.
C23_LockReleasedAndProgress ==
    /\ [](\A i \in LicIds : mu[i] # 0 => (InCritical(mu[i]) /\ h[mu[i]] = i))
    /\ [](\A t \in Threads : pc[t] # "idle" => CanProceed(t))
    /\ \A t \in Threads : (pc[t] # "idle") ~> (pc[t] = "idle")

\* a denied call is on its early return, still holding the lock, while
\* another call waits for it
C23_Witness ==
    \E t, u \in Threads :
        /\ pc[t] = "crUnlock"
        /\ ~res[t].ok
        /\ mu[h[t]] = t
        /\ pc[u] \in {"crLock", "gsLock"}
        /\ h[u] = h[t]

\* C24: whenever no call is inside its critical section, DailyRuns is the
\* number of CanRun calls allowed since the last period reset (or since the
\* initialisation); a step changes the counter only by adding 1 for a run it
\* allows or by a due reset to 0.
C24_CounterIsAllowedCount ==
    /\ []((\A t \in Threads : ~InCritical(t)) =>
             TheLicense.DailyRuns = startRuns + allowed)
    /\ [][\A i \in LicIds :
             lic'[i].DailyRuns # lic[i].DailyRuns =>
                 \E t \in Threads :
                     /\ h[t] = i
                     /\ \/ /\ pc[t] = "crInc" /\ pc'[t] = "crUnlock"
                           /\ res'[t].ok
                           /\ lic'[i].DailyRuns = lic[i].DailyRuns + 1
                           /\ allowed' = allowed + 1
                        \/ /\ pc[t] = "crReset" /\ pc'[t] = "crCheck"
                           /\ ResetDue(lic[i], now)
                           /\ lic'[i].DailyRuns = 0
                           /\ allowed' = 0]_vars

\* after a reset both goroutines were allowed one run each and nobody is
\* inside: the counter stands at 2
C24_Witness ==
    /\ \A t \in Threads : pc[t] = "idle"
    /\ resets = 1
    /\ allowed = 2
    /\ TheLicense.DailyRuns = 2
    /\ budget[1] = MaxCalls - 1
    /\ budget[2] = MaxCalls - 1

\* C25: on a fully initialised Free or Pro License, 0 <= DailyRuns <= MaxRuns
\* in every reachable state, whatever the calls, their interleaving and the
\* passage of time.
C25_CounterWithinLimit ==
    \A i \in LicIds :
        (Bounded(lic[i]) /\ FullyInitialised(lic[i]) /\ i <= nAlloc) =>
            /\ 0 <= lic[i].DailyRuns
            /\ lic[i].DailyRuns <= lic[i].MaxRuns

\* the Free License stands at its limit after a run was allowed and another
\* denied, with a call inside that found it there
C25_Witness ==
    \E t \in Threads :
        /\ TheLicense.Tier = FreeTier
        /\ TheLicense.DailyRuns = FreeMaxRunsPerDay
        /\ allowed >= 1
        /\ denied >= 1
        /\ pc[t] = "crCheck"
        /\ before[t].DailyRuns = FreeMaxRunsPerDay

\* the tier and run limit pairs of the three tiers
TierLimits ==
    {<<FreeTier, FreeMaxRunsPerDay>>, <<ProTier, ProMaxRunsPerDay>>,
     <<EnterpriseTier, EnterpriseMaxRuns>>}

\* C26: once the initialisation completed, (Tier, MaxRuns) is one of
\* (Free, 5), (Pro, 100), (Enterprise, -1), and no step of CanRun, GetStatus,
\* GetMaxTokens, GetTierName or a later Initialize changes Tier, MaxRuns or Key.
C26_TierFieldsFrozen ==
    /\ [](onceDone =>
             <<lic[currentLicense].Tier, lic[currentLicense].MaxRuns>> \in TierLimits)
    /\ [][onceDone =>
             \A i \in LicIds :
                 /\ lic'[i].Tier = lic[i].Tier
                 /\ lic'[i].MaxRuns = lic[i].MaxRuns
                 /\ lic'[i].Key = lic[i].Key]_vars

\* GetTierName answers "Enterprise" after runs were counted, a period reset
\* was performed and the limit is still -1
C26_Witness ==
    /\ onceDone
    /\ pc[1] = "gtnRet"
    /\ res[1].value = "Enterprise"
    /\ resets = 1
    /\ lic[h[1]].DailyRuns >= 1
    /\ lic[h[1]].MaxRuns = EnterpriseMaxRuns
    /\ lic[h[1]].Key = env

\* C27: a CanRun call made less than 24 hours after LastReset performs no
\* reset: LastReset stays, DailyRuns stays (denied) or is one greater
\* (allowed), and an exhausted Free or Pro License denies the call.
C27_NoEarlyReset ==
    \A t \in Threads :
        (/\ pc[t] \in {"crCheck", "crInc", "crUnlock"}
         /\ clk[t] - before[t].LastReset < Period) =>
            /\ lic[h[t]].LastReset = before[t].LastReset
            /\ pc[t] # "crUnlock" => lic[h[t]].DailyRuns = before[t].DailyRuns
            /\ pc[t] = "crUnlock" =>
                  /\ lic[h[t]].DailyRuns =
                        before[t].DailyRuns + (IF res[t].ok THEN 1 ELSE 0)
                  /\ (Bounded(before[t]) /\ before[t].DailyRuns >= before[t].MaxRuns) =>
                        ~res[t].ok

\* the exhausted Free License denies a call made 13 hours into the period
C27_Witness ==
    \E t \in Threads :
        /\ pc[t] = "crUnlock"
        /\ before[t].Tier = FreeTier
        /\ before[t].DailyRuns = FreeMaxRunsPerDay
        /\ clk[t] - before[t].LastReset > 0
        /\ clk[t] - before[t].LastReset < Period
        /\ ~res[t].ok
        /\ lic[h[t]].DailyRuns = FreeMaxRunsPerDay

\* the clock of the model stopped before the period of the License was over
ClockStopsInPeriod ==
    /\ \A d \in TickSteps : now + d > MaxTime
    /\ now - TheLicense.LastReset <= Period

\* C28: a denial is never permanent and does not postpone the reset: a denied
\* call leaves LastReset alone, a call on a Free or Pro License made more than
\* 24 hours after LastReset is allowed however many were denied before, and
\* while the clock advances and the caller retries every denial is followed by
\* an allowed call.
C28_DenialNotPermanent ==
    /\ [](\A t \in Threads :
             pc[t] = "crUnlock" =>
                 /\ ~res[t].ok => lic[h[t]].LastReset = before[t].LastReset
                 /\ (Bounded(before[t]) /\ clk[t] - before[t].LastReset > Period) =>
                       res[t].ok)
    /\ (pc[1] = "crUnlock" /\ ~res[1].ok) ~>
           ((pc[1] = "crUnlock" /\ res[1].ok) \/ ClockStopsInPeriod)

\* the License found exhausted by a call made at hour 25 allows it
C28_Witness ==
    /\ pc[1] = "crUnlock"
    /\ Bounded(before[1])
    /\ before[1].DailyRuns = before[1].MaxRuns
    /\ denied = 0
    /\ resets = 1
    /\ clk[1] - before[1].LastReset > Period
    /\ res[1].ok

\* the name of each tier
TierName(tier) ==
    IF tier = FreeTier THEN "Free"
    ELSE IF tier = ProTier THEN "Pro"
    ELSE "Enterprise"

\* C29: GetStatus reports the tier name and the stored DailyRuns, with MaxRuns
\* and the token limit of the tier or, for Enterprise, the Unlimited marker;
\* no step of it changes the License or the count of allowed and denied
\* runs.
C29_StatusReadOnly ==
    /\ [](\A t \in Threads :
             pc[t] = "gsUnlock" =>
                 /\ lic[h[t]] = before[t]
                 /\ res[t].tierName = TierName(before[t].Tier)
                 /\ res[t].runs = before[t].DailyRuns
                 /\ IF before[t].Tier = EnterpriseTier
                    THEN res[t].limit = "Unlimited" /\ res[t].tokens = "Unlimited"
                    ELSE /\ res[t].limit = before[t].MaxRuns
                         /\ res[t].tokens = TierTokens(before[t].Tier))
    /\ [][\A t \in Threads :
             (pc[t] \in {"idle", "gsLock", "gsRead", "gsUnlock"}
              /\ pc'[t] \in {"gsLock", "gsRead", "gsUnlock", "idle"}
              /\ pc'[t] # pc[t]) =>
                 /\ lic' = lic
                 /\ allowed' = allowed
                 /\ denied' = denied
                 /\ resets' = resets]_vars

\* GetStatus reports 99/100 on the Pro License between two CanRun calls of
\* another goroutine, the second of which waits for the lock
C29_Witness ==
    \E t, u \in Threads :
        /\ pc[t] = "gsUnlock"
        /\ res[t].tierName = "Pro"
        /\ res[t].runs = ProMaxRunsPerDay - 1
        /\ res[t].limit = ProMaxRunsPerDay
        /\ res[t].tokens = ProMaxTokensPerRun
        /\ allowed = 1
        /\ pc[u] = "crLock"
        /\ budget[u] = MaxCalls - 2

====
